---- MODULE Spec2Model ----
(***************************************************************************)
(* Semantic-analysis layer of the datamodel crate (transform/ast_to_dml):  *)
(*   - db.rs / types.rs : resolve_aliases, resolve_alias                   *)
(*   - datasource_loader.rs : DatasourceLoader::load_datasources_from_ast, *)
(*     lift_datasource, preview_features_guardrail,                        *)
(*     get_planet_scale_mode_arg                                           *)
(* The two passes are independent; each has its own specification          *)
(* (SpecAlias, SpecLoader) over the same variables. Both append to the     *)
(* shared Diagnostics sink.                                                *)
(***************************************************************************)
EXTENDS Naturals, Sequences, FiniteSets, TLC

VARIABLES
    schema,                  \* SchemaAst: the top-level declarations, in source order
    names,                   \* Names.tops: declaration name -> TopId
    pc,                      \* position of resolve_aliases
    next_top,                \* position of the iter_tops() iterator
    root_alias_id,           \* the root alias resolve_alias is working on (0: none)
    traversed_type_aliases,  \* Vec<&str> of alias names followed from the root
    aliases,                 \* HashMap<TopId, FullyResolvedType>
    ast_sources,             \* ast_schema.sources(): the datasource blocks, in source order
    preview_features,        \* HashSet<&PreviewFeature>: the enabled preview features
    lpc,                     \* position of load_datasources_from_ast
    next_src,                \* position of the sources() iterator
    sources,                 \* Vec<Datasource> being assembled / returned
    diagnostics              \* Diagnostics: the errors pushed so far, in order

alias_vars == <<schema, names, pc, next_top, root_alias_id, traversed_type_aliases, aliases>>
loader_vars == <<ast_sources, preview_features, lpc, next_src, sources>>
vars == <<schema, names, pc, next_top, root_alias_id, traversed_type_aliases, aliases,
          ast_sources, preview_features, lpc, next_src, sources, diagnostics>>

(***************************************************************************)
(* Bounds of the model.                                                    *)
(***************************************************************************)
\* Largest number of top-level declarations of a schema.
MaxTops == 3
\* Largest number of datasource blocks of a schema.
MaxSources == 3

None == "None"

Range(s) == {s[i] : i \in 1..Len(s)}

\* Vec::contains / slice::contains
Contains(s, x) == \E i \in 1..Len(s) : s[i] = x

(***************************************************************************)
(* Part 1: the type alias resolver (db.rs; types.rs holds the same code).  *)
(***************************************************************************)
BUILT_IN_SCALARS ==
    {"Int", "BigInt", "Float", "Boolean", "String", "DateTime", "Json", "Bytes", "Decimal"}

\* The names of the declarations of a schema, by position (Names makes them unique).
TopNames == <<"A", "B", "C", "D", "E", "F", "G", "H">>

\* ast::FieldType of a type alias: Supported(type_name) or Unsupported(..).
Supported(type_name) == [supported |-> TRUE, name |-> type_name]
Unsupported == [supported |-> FALSE, name |-> "Unsupported"]

\* The type names a type alias of the model may be declared as: a builtin scalar,
\* the name of a declaration, a name no declaration has.
TypeNames == {"Int", "DateTime", "Undeclared"} \cup {TopNames[i] : i \in 1..MaxTops}
FieldTypes == {Supported(n) : n \in TypeNames} \cup {Unsupported}

\* ast::Top without its name: Type(Field) carries a field_type, the other kinds none.
Tops ==
    {[kind |-> "Type", name |-> "", field_type |-> ft] : ft \in FieldTypes}
    \cup {[kind |-> k, name |-> "", field_type |-> Unsupported] :
            k \in {"Model", "Enum", "Generator", "Source"}}

\* The schema of n declarations whose shapes are tops[1..n], named by position.
SchemaOf(tops) == [i \in DOMAIN tops |-> [tops[i] EXCEPT !.name = TopNames[i]]]

\* FullyResolvedType
Scalar == [tag |-> "Scalar", id |-> 0]
Enum(id) == [tag |-> "Enum", id |-> id]
UnsupportedType == [tag |-> "Unsupported", id |-> 0]
Unknown == [tag |-> "Unknown", id |-> 0]

\* The entries of the Diagnostics sink: the error, the declaration (TopId or
\* datasource position) whose span it carries, and what the message holds: the
\* path of a recursion error (the names that are joined by " -> "), the name of
\* the type or argument an error is about.
Diag(kind, at, detail) == [kind |-> kind, at |-> at, detail |-> detail]

\* schema.iter_tops().filter_map(as_type_alias): the TopIds of the type aliases.
TypeAliasIds == {i \in 1..Len(schema) : schema[i].kind = "Type"}

\* Whether the for loop of resolve_aliases has a type alias left, and which.
RemainingAliases == {i \in TypeAliasIds : i >= next_top}
NextAliasIdFromStart == CHOOSE i \in TypeAliasIds : \A j \in TypeAliasIds : i <= j
NextAliasId == CHOOSE i \in RemainingAliases : \A j \in RemainingAliases : i <= j

\* db.rs 106-107: the referenced alias is the root, or its name is on the stack.
IsRecursiveRootOnly(referenced_alias_id, root_id, traversed) ==
    referenced_alias_id = root_id
IsRecursive(referenced_alias_id, root_id, traversed) ==
    \/ referenced_alias_id = root_id
    \/ Contains(traversed, schema[referenced_alias_id].name)

\* What one invocation of resolve_alias does: return a FullyResolvedType after
\* pushing errors, push a name and call itself again, or hit unreachable!().
Return(value, diags) == [step |-> "return", value |-> value, diags |-> diags, push |-> None]
Recurse(name) == [step |-> "recurse", value |-> Unknown, diags |-> <<>>, push |-> name]
Unreachable == [step |-> "unreachable", value |-> Unknown, diags |-> <<>>, push |-> None]

\* db.rs 109-118: the recursion error renders the stack joined by " -> ",
\* then " -> " and the root alias' name; its span is the root alias'.
RecursiveType(root_id, traversed) ==
    Return(Unknown, <<Diag("recursive_type", root_id, Append(traversed, schema[root_id].name))>>)

\* db.rs 140-146: no declaration has the name.
TypeNotFoundAbort(root_id, type_name) == Unreachable
TypeNotFound(root_id, type_name) ==
    Return(Unknown, <<Diag("type_not_found", root_id, <<type_name>>)>>)

\* db.rs 131-137: the name is a model's.
ModelAsCustomType(root_id) ==
    Return(Unknown, <<Diag("model_as_custom_type", root_id, <<>>)>>)

\* One invocation of resolve_alias((root_id, schema[root_id]), .., traversed, ..).
\* The recursive call of line 123 is made with the same root alias.
resolve_alias(root_id, traversed) ==
    LET root_type_alias == schema[root_id]
        type_name == root_type_alias.field_type.name
    IN  IF ~root_type_alias.field_type.supported
        THEN Return(UnsupportedType, <<>>)
        ELSE IF type_name \in BUILT_IN_SCALARS
        THEN Return(Scalar, <<>>)
        ELSE IF type_name \notin DOMAIN names
        THEN TypeNotFound(root_id, type_name)
        ELSE LET id == names[type_name]
                 kind == schema[id].kind
             IN  CASE kind = "Type" ->
                        IF IsRecursive(id, root_id, traversed)
                        THEN RecursiveType(root_id, traversed)
                        ELSE Recurse(schema[id].name)
                   [] kind = "Model" -> ModelAsCustomType(root_id)
                   [] kind = "Enum" -> Return(Enum(id), <<>>)
                   [] OTHER -> Unreachable

\* HashMap::insert
Insert(map, key, value) == [k \in DOMAIN map \cup {key} |-> IF k = key THEN value ELSE map[k]]

InitAlias ==
    /\ \E n \in 0..MaxTops : \E tops \in [1..n -> Tops] : schema = SchemaOf(tops)
    /\ names = [n \in {schema[i].name : i \in 1..Len(schema)} |->
                    CHOOSE i \in 1..Len(schema) : schema[i].name = n]
    /\ pc = "loop"
    /\ next_top = 1
    /\ root_alias_id = 0
    /\ traversed_type_aliases = <<>>
    /\ aliases = << >>
    /\ diagnostics = <<>>
    /\ ast_sources = <<>>
    /\ preview_features = {}
    /\ lpc = "idle"
    /\ next_src = 1
    /\ sources = <<>>

\* resolve_aliases 71-75: the loop takes the next type alias and clears the stack.
ResolveNext ==
    /\ pc = "loop"
    /\ RemainingAliases # {}
    /\ root_alias_id' = NextAliasId
    /\ next_top' = NextAliasId + 1
    /\ traversed_type_aliases' = <<>>
    /\ pc' = "resolve"
    /\ UNCHANGED <<schema, names, aliases, diagnostics>>
    /\ UNCHANGED loader_vars

\* resolve_alias 121-129: push the referenced alias' name and call resolve_alias again.
ResolveAliasRecurse ==
    /\ pc = "resolve"
    /\ LET r == resolve_alias(root_alias_id, traversed_type_aliases)
       IN  /\ r.step = "recurse"
           /\ traversed_type_aliases' = Append(traversed_type_aliases, r.push)
    /\ UNCHANGED <<schema, names, pc, next_top, root_alias_id, aliases, diagnostics>>
    /\ UNCHANGED loader_vars

\* resolve_alias returns (through every frame); resolve_aliases 76-85 inserts the result.
ResolveAliasReturn ==
    /\ pc = "resolve"
    /\ LET r == resolve_alias(root_alias_id, traversed_type_aliases)
       IN  /\ r.step = "return"
           /\ diagnostics' = diagnostics \o r.diags
           /\ aliases' = Insert(aliases, root_alias_id, r.value)
    /\ pc' = "loop"
    /\ UNCHANGED <<schema, names, next_top, root_alias_id, traversed_type_aliases>>
    /\ UNCHANGED loader_vars

\* resolve_alias 139: unreachable!() panics; the pass is abandoned.
ResolveAliasUnreachable ==
    /\ pc = "resolve"
    /\ resolve_alias(root_alias_id, traversed_type_aliases).step = "unreachable"
    /\ pc' = "panicked"
    /\ UNCHANGED <<schema, names, next_top, root_alias_id, traversed_type_aliases, aliases,
                   diagnostics>>
    /\ UNCHANGED loader_vars

\* resolve_aliases 86-88: no type alias is left; the map is returned.
ReturnAliases ==
    /\ pc = "loop"
    /\ RemainingAliases = {}
    /\ pc' = "done"
    /\ UNCHANGED <<schema, names, next_top, root_alias_id, traversed_type_aliases, aliases,
                   diagnostics>>
    /\ UNCHANGED loader_vars

NextAlias ==
    \/ ResolveNext
    \/ ResolveAliasRecurse
    \/ ResolveAliasReturn
    \/ ResolveAliasUnreachable
    \/ ReturnAliases

SpecAlias == InitAlias /\ [][NextAlias]_vars

(***************************************************************************)
(* Part 2: the datasource loader (datasource_loader.rs).                   *)
(*                                                                         *)
(* An argument of a block is held as what its ValueValidator answers:      *)
(* is_from_env / as_string_literal for `provider`, as_str_from_env for     *)
(* `url` and `shadowDatabaseUrl`, as_array().to_str_vec() for              *)
(* `previewFeatures`, as_bool for `planetScaleMode`. An Option is a        *)
(* sequence of at most one element.                                        *)
(***************************************************************************)
NoneOpt == <<>>
Some(v) == <<v>>

URL_KEY == "url"
SHADOW_DATABASE_URL_KEY == "shadowDatabaseUrl"
PREVIEW_FEATURES_KEY == "previewFeatures"

\* get_builtin_datasource_providers: the canonical names of the five providers.
BuiltinDatasourceProviders == {"mysql", "postgresql", "sqlite", "sqlserver", "mongodb"}

\* Result<T, DatamodelError>
Ok(v) == [ok |-> TRUE, value |-> Some(v), err |-> "None"]
Err(e) == [ok |-> FALSE, value |-> NoneOpt, err |-> e]

\* StringFromEnvVar: a literal, or the name of an environment variable.
Literal(str) == [as_literal |-> Some(str), from_env_var |-> NoneOpt]
FromEnvVar(var) == [as_literal |-> NoneOpt, from_env_var |-> Some(var)]

ProviderArgs ==
    {[is_from_env |-> TRUE, as_string_literal |-> NoneOpt],
     [is_from_env |-> FALSE, as_string_literal |-> NoneOpt]}
    \cup {[is_from_env |-> FALSE, as_string_literal |-> Some(str)] :
            str \in {"", "postgresql", "foo"}}

\* as_str_from_env: a literal (maybe empty), an env() reference, the error of an
\* env() whose variable is not set, or another error (not a string, ...).
StrFromEnvResults ==
    {Ok(Literal("postgresql://localhost/db")), Ok(Literal("")), Ok(FromEnvVar("DATABASE_URL")),
     Err("EnvironmentFunctionalEvaluationError"), Err("ValueParserError")}

\* as_array().to_str_vec(): the listed strings, or an error.
StrVecResults ==
    {Ok(<<>>), Ok(<<"planetScaleMode">>), Ok(<<"a", "b">>), Err("ValueParserError")}

\* as_bool
BoolResults == {Ok(TRUE), Ok(FALSE), Err("ValueParserError")}

Option(S) == {NoneOpt} \cup {Some(v) : v \in S}

\* ast::SourceConfig: its name, its documentation and its properties by name.
SourceConfig(provider, url, shadow, features, mode, doc) ==
    [name |-> "", documentation |-> doc, provider |-> provider, url |-> url,
     shadowDatabaseUrl |-> shadow, previewFeatures |-> features, planetScaleMode |-> mode]

\* Every combination of the five arguments.
AllBlocks ==
    {SourceConfig(p, u, s, f, m, NoneOpt) :
        p \in Option(ProviderArgs), u \in Option(StrFromEnvResults),
        s \in Option(StrFromEnvResults), f \in Option(StrVecResults), m \in Option(BoolResults)}

\* The blocks of the schemas with several datasources: a plain valid block, and
\* that block with one thing changed.
ValidProvider == Some([is_from_env |-> FALSE, as_string_literal |-> Some("postgresql")])
ValidUrl == Some(Ok(Literal("postgresql://localhost/db")))
LoadBlocks ==
    {SourceConfig(p, ValidUrl, NoneOpt, NoneOpt, NoneOpt, NoneOpt) : p \in Option(ProviderArgs)}
    \cup {SourceConfig(ValidProvider, u, NoneOpt, NoneOpt, NoneOpt, NoneOpt) :
            u \in {NoneOpt, Some(Err("EnvironmentFunctionalEvaluationError")),
                   Some(Err("ValueParserError"))}}
    \cup {SourceConfig(ValidProvider, ValidUrl, Some(Err(e)), NoneOpt, NoneOpt, NoneOpt) :
            e \in {"EnvironmentFunctionalEvaluationError", "ValueParserError"}}
    \cup {
          SourceConfig(ValidProvider, ValidUrl, NoneOpt, Some(Ok(<<"a", "b">>)), NoneOpt, NoneOpt),
          SourceConfig(ValidProvider, ValidUrl, NoneOpt, NoneOpt, Some(Ok(TRUE)), NoneOpt),
          SourceConfig(ValidProvider, ValidUrl, NoneOpt, NoneOpt, NoneOpt, Some("The database"))}

\* The names of the datasource blocks of a schema, by position.
SourceNames == <<"db1", "db2", "db3", "db4", "db5", "db6">>
Named(block, i) == [block EXCEPT !.name = SourceNames[i]]

\* The datasource blocks of a schema, named by position.
SourcesOfSchema(blocks) == [i \in DOMAIN blocks |-> Named(blocks[i], i)]

\* The enabled preview features.
PreviewFeatures == {"PlanetScaleMode", "MongoDb"}

\* A step of lift_datasource: the Datasource it returns (or None), the errors it pushes.
Lifted(datasource, diags) == [datasource |-> datasource, diags |-> diags]

\* datasource_loader.rs 251-269
preview_features_guardrail_inverted(args, at) ==
    IF args.previewFeatures = NoneOpt THEN <<>>
    ELSE LET val == args.previewFeatures[1]
         IN  IF val.ok
             THEN IF val.value[1] # <<>> THEN <<>>
                  ELSE <<Diag("connector_error", at, <<PREVIEW_FEATURES_KEY>>)>>
             ELSE <<Diag(val.err, at, <<PREVIEW_FEATURES_KEY>>)>>
preview_features_guardrail(args, at) ==
    IF args.previewFeatures = NoneOpt THEN <<>>
    ELSE LET val == args.previewFeatures[1]
         IN  IF val.ok
             THEN IF val.value[1] = <<>> THEN <<>>
                  ELSE <<Diag("connector_error", at, <<PREVIEW_FEATURES_KEY>>)>>
             ELSE <<Diag(val.err, at, <<PREVIEW_FEATURES_KEY>>)>>

\* datasource_loader.rs 218-249: the flag, and the errors pushed.
get_planet_scale_mode_arg_ungated(args, features, at) ==
    IF args.planetScaleMode = NoneOpt THEN [value |-> FALSE, diags |-> <<>>]
    ELSE LET value == args.planetScaleMode[1]
         IN  IF value.ok THEN [value |-> value.value[1], diags |-> <<>>]
             ELSE [value |-> FALSE, diags |-> <<Diag(value.err, at, <<"planetScaleMode">>)>>]
get_planet_scale_mode_arg(args, features, at) ==
    IF args.planetScaleMode = NoneOpt THEN [value |-> FALSE, diags |-> <<>>]
    ELSE LET value == args.planetScaleMode[1]
             mode_enabled == IF value.ok THEN value.value[1] ELSE FALSE
             coercion == IF value.ok THEN <<>> ELSE <<Diag(value.err, at, <<"planetScaleMode">>)>>
         IN  IF mode_enabled /\ "PlanetScaleMode" \notin features
             THEN [value |-> FALSE,
                   diags |-> coercion \o
                             <<Diag("source_validation_error", at,
                                    <<"PLANET_SCALE_PREVIEW_FEATURE_ERR">>)>>]
             ELSE [value |-> mode_enabled, diags |-> coercion]

\* datasource_loader.rs 140-159: the shadow database URL, and the errors pushed.
shadow_database_url_strict(args, at) ==
    IF args.shadowDatabaseUrl = NoneOpt THEN [value |-> NoneOpt, diags |-> <<>>]
    ELSE LET r == args.shadowDatabaseUrl[1]
         IN  IF r.ok
             THEN [value |-> IF r.value[1].as_literal = Some("") THEN NoneOpt ELSE r.value,
                   diags |-> <<>>]
             ELSE [value |-> NoneOpt, diags |-> <<Diag(r.err, at, <<SHADOW_DATABASE_URL_KEY>>)>>]
shadow_database_url(args, at) ==
    IF args.shadowDatabaseUrl = NoneOpt THEN [value |-> NoneOpt, diags |-> <<>>]
    ELSE LET r == args.shadowDatabaseUrl[1]
         IN  IF r.ok
             THEN [value |-> IF r.value[1].as_literal = Some("") THEN NoneOpt ELSE r.value,
                   diags |-> <<>>]
             ELSE IF r.err = "EnvironmentFunctionalEvaluationError"
             THEN [value |-> NoneOpt, diags |-> <<>>]
             ELSE [value |-> NoneOpt, diags |-> <<Diag(r.err, at, <<SHADOW_DATABASE_URL_KEY>>)>>]

\* datasource_loader.rs 189-194: the registry's provider (its canonical name), if any.
get_datasource_provider(provider) ==
    IF provider \in BuiltinDatasourceProviders THEN Some(provider) ELSE NoneOpt

\* datasource_loader.rs 140-186: the rest of lift_datasource once provider and
\* url are read.
lift_with_url(ast_source, provider, url, features, at) ==
    LET shadow == shadow_database_url(ast_source, at)
        guardrail == preview_features_guardrail(ast_source, at)
        datasource_provider == get_datasource_provider(provider)
        mode == get_planet_scale_mode_arg(ast_source, features, at)
    IN  IF datasource_provider = NoneOpt
        THEN Lifted(NoneOpt,
                    shadow.diags \o guardrail
                        \o <<Diag("datasource_provider_not_known", at, <<provider>>)>>)
        ELSE Lifted(Some([name |-> ast_source.name,
                          provider |-> provider,
                          active_provider |-> datasource_provider[1],
                          url |-> url,
                          url_span |-> at,
                          documentation |-> ast_source.documentation,
                          shadow_database_url |-> shadow.value,
                          planet_scale_mode |-> mode.value]),
                    shadow.diags \o guardrail \o mode.diags)

\* datasource_loader.rs 120-138: the url argument.
lift_url(ast_source, provider, features, at) ==
    IF ast_source.url = NoneOpt
    THEN Lifted(NoneOpt, <<Diag("source_argument_not_found", at, <<URL_KEY>>)>>)
    ELSE LET r == ast_source.url[1]
         IN  IF r.ok THEN lift_with_url(ast_source, provider, r.value[1], features, at)
             ELSE Lifted(NoneOpt, <<Diag(r.err, at, <<URL_KEY>>)>>)

\* datasource_loader.rs 80-90: the block has no provider argument.
provider_not_found_after_guardrail(ast_source, at) ==
    Lifted(NoneOpt,
           preview_features_guardrail(ast_source, at)
               \o <<Diag("source_argument_not_found", at, <<"provider">>)>>)
provider_not_found(ast_source, at) ==
    Lifted(NoneOpt, <<Diag("source_argument_not_found", at, <<"provider">>)>>)

\* datasource_loader.rs 67-187: lift_datasource.
lift_datasource(ast_source, features, at) ==
    IF ast_source.provider = NoneOpt
    THEN provider_not_found(ast_source, at)
    ELSE LET provider_arg == ast_source.provider[1]
         IN  IF provider_arg.is_from_env
             THEN Lifted(NoneOpt, <<Diag("functional_evaluation_error", at, <<"provider">>)>>)
             ELSE IF provider_arg.as_string_literal = Some("")
             THEN Lifted(NoneOpt,
                         <<Diag("source_validation_error", at, <<"provider must not be empty">>)>>)
             ELSE IF provider_arg.as_string_literal = NoneOpt
             THEN Lifted(NoneOpt,
                         <<Diag("source_validation_error", at,
                                <<"provider must be a string literal">>)>>)
             ELSE lift_url(ast_source, provider_arg.as_string_literal[1], features, at)

\* datasource_loader.rs 48: the loop has a block left.
SourcesLeftUntilError == next_src <= Len(ast_sources) /\ diagnostics = <<>>
SourcesLeft == next_src <= Len(ast_sources)

\* datasource_loader.rs 54: sources.len() > 1
MoreThanOneSourceOffByOne == Len(sources) >= 1
MoreThanOneSource == Len(sources) > 1

\* datasource_loader.rs 55-61: one error per datasource block of the schema.
MoreThanOneDiags ==
    [i \in 1..Len(ast_sources) |->
        Diag("source_validation_error", i, <<"You defined more than one datasource">>)]

InitLoader ==
    \* one block of any shape, or up to MaxSources blocks out of LoadBlocks
    /\ \/ \E block \in AllBlocks : ast_sources = SourcesOfSchema(<<block>>)
       \/ \E n \in 0..MaxSources :
            \E blocks \in [1..n -> LoadBlocks] : ast_sources = SourcesOfSchema(blocks)
    /\ preview_features \in SUBSET PreviewFeatures
    /\ lpc = "lifting"
    /\ next_src = 1
    /\ sources = <<>>
    /\ diagnostics = <<>>
    /\ schema = <<>>
    /\ names = << >>
    /\ pc = "idle"
    /\ next_top = 1
    /\ root_alias_id = 0
    /\ traversed_type_aliases = <<>>
    /\ aliases = << >>

\* load_datasources_from_ast 48-52: lift the next block, keep its Datasource if any.
LiftNext ==
    /\ lpc = "lifting"
    /\ SourcesLeft
    /\ LET r == lift_datasource(ast_sources[next_src], preview_features, next_src)
       IN  /\ diagnostics' = diagnostics \o r.diags
           /\ sources' = sources \o r.datasource
    /\ next_src' = next_src + 1
    /\ UNCHANGED <<ast_sources, preview_features, lpc>>
    /\ UNCHANGED alias_vars

\* load_datasources_from_ast 54-64: the check for several datasources, and the return.
ReturnSources ==
    /\ lpc = "lifting"
    /\ ~SourcesLeft
    /\ diagnostics' = IF MoreThanOneSource THEN diagnostics \o MoreThanOneDiags ELSE diagnostics
    /\ lpc' = "done"
    /\ UNCHANGED <<ast_sources, preview_features, next_src, sources>>
    /\ UNCHANGED alias_vars

NextLoader ==
    \/ LiftNext
    \/ ReturnSources

SpecLoader == InitLoader /\ [][NextLoader]_vars

(***************************************************************************)
(* The alias graph of a schema, for stating the claims about the resolver. *)
(***************************************************************************)
NumTypeAliases == Cardinality(TypeAliasIds)

\* The type alias a type alias refers to directly (0: none).
AliasRef(id) ==
    LET ft == schema[id].field_type
    IN  IF /\ ft.supported
           /\ ft.name \notin BUILT_IN_SCALARS
           /\ ft.name \in DOMAIN names
           /\ schema[names[ft.name]].kind = "Type"
        THEN names[ft.name]
        ELSE 0

\* The alias reached from id by following k alias references (0: the chain ended).
RECURSIVE Follow(_, _)
Follow(id, k) ==
    IF k = 0 \/ id = 0 THEN id ELSE Follow(AliasRef(id), k - 1)

\* The aliases of the chain that starts at id.
Chain(id) == {Follow(id, k) : k \in 0..Len(schema)} \ {0}

OnCycle(id) == \E k \in 1..Len(schema) : Follow(id, k) = id
Acyclic(id) == \A a \in Chain(id) : ~OnCycle(a)

\* The last alias of an acyclic chain, and what its type name stands for.
LastOfChain(id) == CHOOSE a \in Chain(id) : AliasRef(a) = 0
ChainEnd(id) ==
    LET ft == schema[LastOfChain(id)].field_type
    IN  IF ~ft.supported THEN UnsupportedType
        ELSE IF ft.name \in BUILT_IN_SCALARS THEN Scalar
        ELSE IF ft.name \in DOMAIN names /\ schema[names[ft.name]].kind = "Enum"
        THEN Enum(names[ft.name])
        ELSE Unknown

\* The diagnostics carrying the span of declaration id.
DiagsAt(id) == SelectSeq(diagnostics, LAMBDA d : d.at = id)

\* No type name of the schema resolves to a generator or datasource declaration.
NoGeneratorOrSourceRef ==
    \A i \in TypeAliasIds :
        LET ft == schema[i].field_type
        IN  (ft.supported /\ ft.name \in DOMAIN names)
                => schema[names[ft.name]].kind \notin {"Generator", "Source"}

\* C1: every alias whose chain of alias references is acyclic, of any length, and
\* ends in a builtin scalar or an enum is stored as Scalar or Enum(that enum),
\* with no diagnostic. (Stated as claimed; the code breaks it for chains of two
\* or more aliases.)
C1_AcyclicChainResolves ==
    \A id \in DOMAIN aliases :
        (Acyclic(id) /\ ChainEnd(id).tag \in {"Scalar", "Enum"})
            => (aliases[id] = ChainEnd(id) /\ DiagsAt(id) = <<>>)

\* C2: every alias on a cycle of alias references is stored as Unknown with one
\* recursion diagnostic whose path names every alias of the cycle. (Stated as
\* claimed; the code breaks it for cycles of three or more aliases.)
C2_CycleReportsFullPath ==
    \A id \in DOMAIN aliases :
        OnCycle(id)
            => /\ aliases[id] = Unknown
               /\ Len(DiagsAt(id)) = 1
               /\ DiagsAt(id)[1].kind = "recursive_type"
               /\ {schema[a].name : a \in Chain(id)} \subseteq Range(DiagsAt(id)[1].detail)

\* The steps resolve_aliases has left at most: a count that every step lowers.
Measure ==
    LET W == NumTypeAliases + 3
    IN  CASE pc = "loop" -> Cardinality(RemainingAliases) * W + 1
          [] pc = "resolve" ->
                Cardinality(RemainingAliases) * W + 1
                    + ((NumTypeAliases + 1) - Len(traversed_type_aliases))
          [] OTHER -> 0

\* C3: resolve_aliases terminates on every schema (every step lowers Measure, a
\* natural number, so no run is infinite) and the traversal stack never holds
\* more names than there are type aliases.
C3_TerminatesWithBoundedStack ==
    [][/\ Len(traversed_type_aliases') <= NumTypeAliases
       /\ Measure' < Measure]_vars

\* C3 witness: the pass has finished on a schema whose three aliases form one cycle.
C3_Witness ==
    /\ pc = "done"
    /\ \E id \in TypeAliasIds : OnCycle(id) /\ Cardinality(Chain(id)) >= 3

\* C4: in a pass where no type name resolves to a generator or datasource, the
\* pass does not abort, every type alias has a result when it ends, and an alias
\* is Unknown exactly when it has a diagnostic, which is then the only one and is
\* a recursion, type-not-found or model-as-type error.
C4_UnknownIffOneDiagnostic ==
    NoGeneratorOrSourceRef =>
        /\ pc # "panicked"
        /\ pc = "done" => DOMAIN aliases = TypeAliasIds
        /\ \A id \in TypeAliasIds :
              /\ id \notin DOMAIN aliases => DiagsAt(id) = <<>>
              /\ id \in DOMAIN aliases =>
                    /\ aliases[id].tag \in {"Scalar", "Enum", "Unsupported", "Unknown"}
                    /\ aliases[id] = Unknown <=> DiagsAt(id) # <<>>
                    /\ Len(DiagsAt(id)) <= 1
                    /\ \A k \in 1..Len(DiagsAt(id)) :
                          DiagsAt(id)[k].kind \in
                              {"recursive_type", "type_not_found", "model_as_custom_type"}

\* C4 witness: the pass ended with an early alias failed (Unknown) and a later
\* one resolved to a Scalar or an Enum.
C4_Witness ==
    /\ pc = "done"
    /\ NoGeneratorOrSourceRef
    /\ \E i, j \in DOMAIN aliases :
          /\ i < j
          /\ aliases[i] = Unknown
          /\ aliases[j].tag \in {"Scalar", "Enum"}

\* C5: a stored result is never overwritten, an alias that has a result is never
\* resolved again, and the returned map has exactly the type aliases as keys.
C5_ResolvedOnce ==
    [][/\ \A id \in DOMAIN aliases : id \in DOMAIN aliases' /\ aliases'[id] = aliases[id]
       /\ pc' = "resolve" => root_alias_id' \notin DOMAIN aliases'
       /\ pc' = "done" => DOMAIN aliases' = TypeAliasIds]_vars

\* C5 witness: the pass ended on a schema where one alias is referenced by two others.
C5_Witness ==
    /\ pc = "done"
    /\ \E a, b, c \in DOMAIN aliases :
          a # c /\ b \notin {a, c} /\ AliasRef(a) = b /\ AliasRef(c) = b

(***************************************************************************)
(* The claims about the datasource loader.                                 *)
(***************************************************************************)
\* The block has a provider argument that is a non-empty string literal, not env().
PassesProviderArg(block) ==
    /\ block.provider # NoneOpt
    /\ ~block.provider[1].is_from_env
    /\ block.provider[1].as_string_literal \notin {NoneOpt, Some("")}

\* The block has a url argument that resolves.
PassesUrl(block) == block.url # NoneOpt /\ block.url[1].ok

\* The block's provider is one of the registry.
PassesRegistry(block) ==
    block.provider[1].as_string_literal[1] \in BuiltinDatasourceProviders

Passes(block) == PassesProviderArg(block) /\ PassesUrl(block) /\ PassesRegistry(block)

\* The blocks lift_datasource has been called on.
LiftedBlocks == 1..(next_src - 1)

IsMoreThanOneDiag(d) == d.detail = <<"You defined more than one datasource">>

\* The errors pushed while lifting block i.
LiftDiagsAt(i) == SelectSeq(diagnostics, LAMBDA d : d.at = i /\ ~IsMoreThanOneDiag(d))

\* The Datasources returned for block i.
SourcesOf(i) == SelectSeq(sources, LAMBDA ds : ds.name = ast_sources[i].name)

SeqNames(s) == [i \in 1..Len(s) |-> s[i].name]

HasNonEmptyPreviewFeatures(block) ==
    /\ block.previewFeatures # NoneOpt
    /\ block.previewFeatures[1].ok
    /\ block.previewFeatures[1].value[1] # <<>>

HasGuardrailDiag(i) ==
    \E k \in 1..Len(diagnostics) :
        diagnostics[k] = Diag("connector_error", i, <<PREVIEW_FEATURES_KEY>>)

\* C6: every block is lifted whatever became of the blocks before it (a block
\* that fails is reported, and the pass only ends after the last block), and the
\* returned list holds, in source order, one Datasource per block that passes the
\* provider, url and registry checks and none for another block.
C6_OneDatasourcePerPassingBlock ==
    /\ lpc = "done" => next_src = Len(ast_sources) + 1
    /\ SeqNames(sources) = SeqNames(SelectSeq(SubSeq(ast_sources, 1, next_src - 1), Passes))
    /\ \A i \in LiftedBlocks :
          /\ ~Passes(ast_sources[i]) => LiftDiagsAt(i) # <<>>
          /\ Passes(ast_sources[i]) =>
                /\ Len(SourcesOf(i)) = 1
                /\ Some(SourcesOf(i)[1].provider) = ast_sources[i].provider[1].as_string_literal
                /\ SourcesOf(i)[1].url = ast_sources[i].url[1].value[1]

\* C6 witness: the pass ended with a Datasource for a block that follows a failed
\* block and is followed by another failed one.
C6_Witness ==
    /\ lpc = "done"
    /\ \E i, j, k \in 1..Len(ast_sources) :
          /\ i < j /\ j < k
          /\ ~Passes(ast_sources[i]) /\ Passes(ast_sources[j]) /\ ~Passes(ast_sources[k])
          /\ SeqNames(sources) = <<ast_sources[j].name>>

\* C7: the 'more than one datasource' errors are pushed exactly when more than
\* one Datasource was assembled; then there is one per block of the schema, in
\* order, after every error of the blocks, and the Datasources are all returned.
C7_MoreThanOneDatasource ==
    LET multi == SelectSeq(diagnostics, IsMoreThanOneDiag)
        n == Len(ast_sources)
        passing == SelectSeq(ast_sources, Passes)
    IN  /\ lpc # "done" => multi = <<>>
        /\ lpc = "done" =>
              /\ multi # <<>> <=> Len(sources) > 1
              /\ Len(sources) > 1 =>
                    /\ Len(multi) = n
                    /\ \A i \in 1..n : multi[i].at = i
                    /\ SubSeq(diagnostics, Len(diagnostics) - n + 1, Len(diagnostics)) = multi
                    /\ Len(sources) = Len(passing)

\* C7 witness: two Datasources returned out of three blocks, the failed block
\* having its 'more than one datasource' error too.
C7_Witness ==
    /\ lpc = "done"
    /\ Len(sources) = 2
    /\ \E i \in 1..Len(ast_sources) :
          /\ ~Passes(ast_sources[i])
          /\ \E k \in 1..Len(diagnostics) :
                diagnostics[k].at = i /\ IsMoreThanOneDiag(diagnostics[k])

\* C8 as claimed: every lifted block whose previewFeatures is a non-empty list
\* has the generator-block error, whatever its other arguments. (The code breaks
\* it for a block that fails on its provider or url argument.)
C8_GuardrailWhateverTheArguments ==
    \A i \in LiftedBlocks :
        HasNonEmptyPreviewFeatures(ast_sources[i]) => HasGuardrailDiag(i)

\* C8 as amended: every lifted block that has a provider argument that is a
\* non-empty string literal and a url argument that resolves, and whose
\* previewFeatures is a non-empty list, has the generator-block error, whatever
\* the features, the enabled set and the other arguments (a provider unknown to
\* the registry included).
C8_GuardrailAfterProviderAndUrl ==
    \A i \in LiftedBlocks :
        (/\ HasNonEmptyPreviewFeatures(ast_sources[i])
         /\ PassesProviderArg(ast_sources[i])
         /\ PassesUrl(ast_sources[i]))
            => HasGuardrailDiag(i)

\* C8 witness: a lifted block with an unknown provider, a shadow URL error and
\* listed preview features that are enabled has the generator-block error.
C8_Witness ==
    \E i \in LiftedBlocks :
        /\ HasNonEmptyPreviewFeatures(ast_sources[i])
        /\ PassesProviderArg(ast_sources[i])
        /\ PassesUrl(ast_sources[i])
        /\ ~PassesRegistry(ast_sources[i])
        /\ ast_sources[i].shadowDatabaseUrl = Some(Err("ValueParserError"))
        /\ "PlanetScaleMode" \in preview_features
        /\ HasGuardrailDiag(i)

\* C9: a lifted block with no provider argument has no Datasource and exactly
\* one error of its own, 'argument not found: provider', whatever its other
\* arguments are.
C9_MissingProvider ==
    \A i \in LiftedBlocks :
        ast_sources[i].provider = NoneOpt
            => /\ SourcesOf(i) = <<>>
               /\ LiftDiagsAt(i) = <<Diag("source_argument_not_found", i, <<"provider">>)>>

\* C9 witness: a lifted block with no provider, no url and listed preview features.
C9_Witness ==
    \E i \in LiftedBlocks :
        /\ ast_sources[i].provider = NoneOpt
        /\ ast_sources[i].url = NoneOpt
        /\ HasNonEmptyPreviewFeatures(ast_sources[i])
        /\ Len(LiftDiagsAt(i)) = 1

ShadowDiagsAt(i) ==
    SelectSeq(diagnostics, LAMBDA d : d.at = i /\ d.detail = <<SHADOW_DATABASE_URL_KEY>>)

ShadowErr(block) ==
    IF block.shadowDatabaseUrl # NoneOpt /\ ~block.shadowDatabaseUrl[1].ok
    THEN block.shadowDatabaseUrl[1].err
    ELSE "None"

\* C10: for a lifted block with a valid provider: if its url resolves, a
\* shadowDatabaseUrl whose environment variable is not set gives a Datasource
\* without shadow URL and no error for it, and another shadowDatabaseUrl error is
\* pushed and the Datasource is returned without shadow URL; if its url does not
\* resolve (any error), the error is pushed and there is no Datasource.
C10_ShadowUrlVersusUrl ==
    \A i \in LiftedBlocks :
        LET block == ast_sources[i]
        IN  (PassesProviderArg(block) /\ PassesRegistry(block)) =>
                /\ (PassesUrl(block) /\ ShadowErr(block) = "EnvironmentFunctionalEvaluationError")
                      => /\ Len(SourcesOf(i)) = 1
                         /\ SourcesOf(i)[1].shadow_database_url = NoneOpt
                         /\ ShadowDiagsAt(i) = <<>>
                /\ (PassesUrl(block)
                        /\ ShadowErr(block) \notin {"None", "EnvironmentFunctionalEvaluationError"})
                      => /\ Len(SourcesOf(i)) = 1
                         /\ SourcesOf(i)[1].shadow_database_url = NoneOpt
                         /\ ShadowDiagsAt(i) = <<Diag(ShadowErr(block), i, <<SHADOW_DATABASE_URL_KEY>>)>>
                /\ (block.url # NoneOpt /\ ~block.url[1].ok)
                      => /\ SourcesOf(i) = <<>>
                         /\ LiftDiagsAt(i) = <<Diag(block.url[1].err, i, <<URL_KEY>>)>>

\* C10 witness: the pass ended on three blocks: one returned without shadow URL
\* and without error (variable not set), one returned without shadow URL and
\* with its error, one dropped for a url whose variable is not set.
C10_Witness ==
    /\ lpc = "done"
    /\ \E i, j, k \in 1..Len(ast_sources) :
          /\ Passes(ast_sources[i])
          /\ ShadowErr(ast_sources[i]) = "EnvironmentFunctionalEvaluationError"
          /\ LiftDiagsAt(i) = <<>>
          /\ Passes(ast_sources[j])
          /\ ShadowErr(ast_sources[j]) = "ValueParserError"
          /\ Len(LiftDiagsAt(j)) = 1
          /\ ast_sources[k].url = Some(Err("EnvironmentFunctionalEvaluationError"))
          /\ SourcesOf(k) = <<>>
          /\ Len(sources) = 2

\* The block's planetScaleMode argument evaluates to true.
PlanetScaleModeTrue(block) ==
    /\ block.planetScaleMode # NoneOpt
    /\ block.planetScaleMode[1].ok
    /\ block.planetScaleMode[1].value[1]

\* The other optional arguments of the block raise no error.
OtherArgumentsClean(block) ==
    /\ ShadowErr(block) \in {"None", "EnvironmentFunctionalEvaluationError"}
    /\ block.previewFeatures # NoneOpt =>
          block.previewFeatures[1].ok /\ block.previewFeatures[1].value[1] = <<>>

PlanetScaleDiag(i) ==
    Diag("source_validation_error", i, <<"PLANET_SCALE_PREVIEW_FEATURE_ERR">>)

\* C11: every returned Datasource with planet_scale_mode = true comes from a
\* block whose planetScaleMode evaluated to true with the PlanetScaleMode feature
\* enabled; a lifted block that passes the provider, url and registry checks, has
\* planetScaleMode = true and the feature not enabled gives a Datasource with the
\* flag false and exactly one planetScaleMode error, which is the block's only
\* error when its other arguments raise none.
C11_PlanetScaleModeGated ==
    \A i \in LiftedBlocks :
        LET block == ast_sources[i]
        IN  /\ \A k \in 1..Len(SourcesOf(i)) :
                  SourcesOf(i)[k].planet_scale_mode
                      => PlanetScaleModeTrue(block) /\ "PlanetScaleMode" \in preview_features
            /\ (/\ Passes(block)
                /\ PlanetScaleModeTrue(block)
                /\ "PlanetScaleMode" \notin preview_features)
                  => /\ Len(SourcesOf(i)) = 1
                     /\ ~SourcesOf(i)[1].planet_scale_mode
                     /\ Len(SelectSeq(LiftDiagsAt(i), LAMBDA d : d = PlanetScaleDiag(i))) = 1
                     /\ Len(SelectSeq(LiftDiagsAt(i),
                                      LAMBDA d : d.detail = <<"planetScaleMode">>)) = 0
                     /\ OtherArgumentsClean(block) => LiftDiagsAt(i) = <<PlanetScaleDiag(i)>>

\* C11 witness: the pass ended with the Datasource of a planetScaleMode = true
\* block, the flag forced to false with its one error (feature not enabled).
C11_Witness ==
    /\ lpc = "done"
    /\ "PlanetScaleMode" \notin preview_features
    /\ \E i \in 1..Len(ast_sources) :
          /\ Passes(ast_sources[i])
          /\ PlanetScaleModeTrue(ast_sources[i])
          /\ Len(SourcesOf(i)) = 1
          /\ ~SourcesOf(i)[1].planet_scale_mode
          /\ LiftDiagsAt(i) = <<PlanetScaleDiag(i)>>

====
